---- MODULE Spec2Model ----
(***************************************************************************)
(* Model of the e621 downloader's download engine (src/src/main.py):       *)
(* APIClient, FileDownloader, DownloadTracker and the worker thread        *)
(* DownloaderThread.download_process, together with the UI thread's stop.  *)
(***************************************************************************)
EXTENDS Integers, Sequences, FiniteSets, TLC

VARIABLES
    \* DownloaderThread (worker thread and its signals)
    pc,               \* position of the worker in download_process
    running,          \* self.running, cleared by stop() on the UI thread
    posts,            \* result of get_posts: one BOOLEAN per post (has a file url)
    bi,               \* index of the post the build loop looks at next
    download_files,   \* the task list: indices of the posts that got a task
    cur,              \* 1-based position of the download loop (i + 1)
    success,          \* value returned by the last download_file call
    completes,        \* number of download_complete emissions
    errors,           \* number of error_signal emissions
    exc,              \* the exception that left the try block: "none",
                      \* "timeout" (asyncio.TimeoutError) or "other"
    progress,         \* arguments of the last progress_update emission
    \* DownloadTracker
    downloaded_files, total_files, failed_downloads,
    addCalls,         \* number of add_files calls made
    \* APIClient
    apiSession,       \* self._session: "none" or "open"
    apiAttempt,       \* loop variable of _make_request
    loginReqs,        \* HTTP requests issued by verify_login
    searchReqs,       \* HTTP requests issued by get_posts
    loginLast,        \* outcome of the latest request of verify_login
    loginResult,      \* what verify_login returned: "none" (not yet), "true", "false"
    \* FileDownloader
    dlSession,        \* self.session: "none" or "open"
    dlAttempt,        \* loop variable of download_file
    dlOffset,         \* downloaded_size
    dlResume,         \* resume_download
    fileReqs,         \* HTTP GET requests issued for files
    dlCalls,          \* number of download_file calls begun
    \* environment: the save directory and the file server
    finalF,           \* per post: the file at the final path
    partF,            \* per post: the file at the final path + ".part"
    remoteSize,       \* length of the remote resource, in chunks
    rangeOK,          \* the file server honours Range requests
    available,        \* the file server holds the resource: when it does
                      \* not, no request gets a 200 or a 206
    limit,            \* api_config.limit, the 'limit' parameter of the search
    serverPosts,      \* the posts the server holds for the tags, in order
    missingField,     \* the required field self.config lacks, or "none"
    \* FileDownloader._sanitize_filename
    filename,         \* the argument of a call: a sequence of characters
    sanitized,        \* what the call returned
    \* MainWindow (UI thread)
    download_button,  \* the Start button is enabled
    stop_button,      \* the Stop button is enabled
    delivered,        \* terminal signals of self.download_thread whose slot
                      \* (download_finished, handle_error) has run
    started,          \* DownloaderThreads created by start_download
    replaced          \* threads that were still running when start_download
                      \* put a new one in self.download_thread, and still are

orchVars == <<pc, running, posts, bi, download_files, cur, success,
              completes, errors, exc, progress>>
trackerVars == <<downloaded_files, total_files, failed_downloads, addCalls>>
apiVars == <<apiSession, apiAttempt, loginReqs, searchReqs, loginLast,
             loginResult>>
dlVars == <<dlSession, dlAttempt, dlOffset, dlResume, fileReqs, dlCalls>>
envVars == <<finalF, partF, remoteSize, rangeOK, available, limit,
             serverPosts, missingField>>
sanVars == <<filename, sanitized>>
uiVars == <<download_button, stop_button, delivered, started, replaced>>
vars == <<orchVars, trackerVars, apiVars, dlVars, envVars, sanVars, uiVars>>

----------------------------------------------------------------------------
(* Bounds of the model *)

MaxPosts == 2        \* posts a search response may carry
MaxSize == 2         \* chunks of a remote file
MaxCalls == 2        \* download_file calls on one task (FileSpec)
MaxAdd == 3          \* largest count given to add_files (TrackerSpec)
MaxAddCalls == 2     \* add_files calls on a stand-alone tracker
MaxOutcomes == 4     \* outcomes registered with a stand-alone tracker
MaxPctTotal == 50    \* largest total_files in PctSpec
MaxPctDone == 29     \* largest downloaded_files in PctSpec
MaxPctFailed == 1    \* largest failed_downloads in PctSpec
MaxMatches == 3      \* posts the server may hold for the tags (SearchSpec)
MaxLimit == 2        \* largest api_config.limit in SearchSpec
MaxMid == 2          \* characters between the two runs of a filename (SanSpec)
MaxExt == 5          \* length of the second run of a filename (SanSpec)
MaxRuns == 2         \* DownloaderThreads start_download may create (UISpec)
MaxOver == 2         \* how far the first run may exceed max_length (SanSpec)

(* Program constants *)

api_retry_count == 3
dl_retry_count == 3
max_length == 100    \* `if len(sanitized) > 100`, `sanitized[:100]`
base_cut == 95       \* `base_name[:95]`

----------------------------------------------------------------------------
(* Files *)

NoFile == [ex |-> FALSE, data |-> <<>>]
File(d) == [ex |-> TRUE, data |-> d]

\* the remote resource: remoteSize chunks, numbered so that order and
\* duplication show in a file's content
Remote == [k \in 1..remoteSize |-> k]

Prefix(s, k) == SubSeq(s, 1, k)
Suffix(s, off) == SubSeq(s, off + 1, Len(s))

PostIds == 1..MaxPosts
PostLists == UNION {[1..n -> BOOLEAN] : n \in 0..MaxPosts}

----------------------------------------------------------------------------
(* IEEE-754 binary64 arithmetic, as far as get_progress_percentage uses it. *)
(* A positive double is m * 2^(exp - 52) with a 53-bit significand m, kept  *)
(* in three limbs of 18 bits: m = m2 * LimbBase^2 + m1 * LimbBase + m0.     *)

LimbBase == 2^18

RECURSIVE FloorLog2Ratio(_, _)
\* floor(log2(n / t)) for n, t > 0
FloorLog2Ratio(n, t) ==
    IF n >= 2 * t THEN FloorLog2Ratio(n, 2 * t) + 1
    ELSE IF n < t THEN FloorLog2Ratio(2 * n, t) - 1
    ELSE 0

\* the double nearest to n / t (round to nearest, ties to even), n, t > 0
FloatDiv(n, t) ==
    LET e == FloorLog2Ratio(n, t)
        N == IF e < 0 THEN n * 2^(0 - e) ELSE n
        D == IF e > 0 THEN t * 2^e ELSE t
        a == (N * 2^16) \div D
        r1 == (N * 2^16) % D
        b == (r1 * LimbBase) \div D
        r2 == (r1 * LimbBase) % D
        c == (r2 * LimbBase) \div D
        r3 == (r2 * LimbBase) % D
        up == (2 * r3 > D) \/ (2 * r3 = D /\ c % 2 = 1)
        c1 == IF up THEN c + 1 ELSE c
        b1 == b + (c1 \div LimbBase)
        a1 == a + (b1 \div LimbBase)
    IN  [m2 |-> a1, m1 |-> b1 % LimbBase, m0 |-> c1 % LimbBase, exp |-> e]

\* int(x * 100) for a positive double x: the product is rounded to a double
\* (round to nearest, ties to even), then truncated to an integer
IntOfTimes100(x) ==
    LET p0 == x.m0 * 100
        c0 == p0 % LimbBase
        p1 == x.m1 * 100 + (p0 \div LimbBase)
        c1 == p1 % LimbBase
        p2 == x.m2 * 100 + (p1 \div LimbBase)
        c2 == p2 % LimbBase
        c3 == p2 \div LimbBase
        \* the exact product has 60 bits when c3 >= 2^5, and 59 otherwise
        s == IF c3 >= 32 THEN 7 ELSE 6
        rem == c0 % 2^s
        half == 2^(s - 1)
        up == rem > half \/ (rem = half /\ (c0 \div 2^s) % 2 = 1)
        g == 16 - x.exp
        top == c3 * LimbBase + c2
        T == top \div 2^g
        ones == /\ c0 \div 2^s = 2^(18 - s) - 1
                /\ c1 = LimbBase - 1
                /\ top % 2^g = 2^g - 1
    IN  IF up /\ ones THEN T + 1 ELSE T

----------------------------------------------------------------------------
(* DownloadTracker *)

\* add_files that assigns the count instead of adding it
add_files_assign(count) ==
    /\ total_files' = count
    /\ addCalls' = addCalls + 1
    /\ UNCHANGED <<downloaded_files, failed_downloads>>

\* add_files that misses one file
add_files_short(count) ==
    /\ total_files' = total_files + count - 1
    /\ addCalls' = addCalls + 1
    /\ UNCHANGED <<downloaded_files, failed_downloads>>

\* add_files(count)
add_files(count) ==
    /\ total_files' = total_files + count
    /\ addCalls' = addCalls + 1
    /\ UNCHANGED <<downloaded_files, failed_downloads>>

\* register_download that also counts the file into the total
register_download_counting(ok) ==
    /\ downloaded_files' = IF ok THEN downloaded_files + 1 ELSE downloaded_files
    /\ failed_downloads' = IF ok THEN failed_downloads ELSE failed_downloads + 1
    /\ total_files' = total_files + 1
    /\ UNCHANGED addCalls

\* register_download(success)
register_download(ok) ==
    /\ downloaded_files' = IF ok THEN downloaded_files + 1 ELSE downloaded_files
    /\ failed_downloads' = IF ok THEN failed_downloads ELSE failed_downloads + 1
    /\ UNCHANGED <<total_files, addCalls>>

\* get_progress_percentage on a tracker holding the given counters
get_progress_percentage(done, failed, total) ==
    IF total = 0 THEN 0
    ELSE IF done + failed = 0 THEN 0
    ELSE IntOfTimes100(FloatDiv(done + failed, total))

----------------------------------------------------------------------------
(* APIClient *)

\* the fields ConfigValidator.validate_config requires
RequiredFields ==
    {"api.base_url", "api.delay", "api.user_agent",
     "credentials.username", "credentials.api_key",
     "download.tags", "download.save_directory", "download.limit"}

\* the fields read by APIConfig(**config['api']) and
\* Credentials(**config['credentials'])
ClientFields ==
    {"api.base_url", "api.delay", "api.user_agent",
     "credentials.username", "credentials.api_key"}

\* the fields read after the login, before get_posts
SearchFields == {"download.tags", "download.limit"}

\* outcomes of one session.get of _make_request: a 200 response, a 401
\* response, any other status, an aiohttp.ClientError, or an exception that
\* is no ClientError (asyncio.TimeoutError of the total timeout, a body that
\* is no JSON)
ApiOutcomes == {"ok", "unauth", "status", "cerr", "exc"}

\* the exceptions that `except aiohttp.ClientError` lets through
Raised == {"timeout", "other"}

Min(a, b) == IF a <= b THEN a ELSE b

\* the number of posts in a 200 response to {'tags': tags, 'limit': limit}:
\* one page of at most MaxPosts posts, cut to `limit` by a server that
\* honours the parameter, and not cut by one that does not
ServedCounts ==
    LET page == Min(MaxPosts, Len(serverPosts))
    IN  (IF limit = 0 THEN page ELSE Min(limit, page)) .. page

\* the 'posts' member of a 200 response
Served == {Prefix(serverPosts, n) : n \in ServedCounts}

\* the request counters and the record of verify_login's responses
CountApiRequest(o) ==
    IF pc = "login"
    THEN /\ loginReqs' = loginReqs + 1
         /\ loginLast' = o
         /\ UNCHANGED searchReqs
    ELSE /\ searchReqs' = searchReqs + 1
         /\ UNCHANGED <<loginReqs, loginLast>>

\* a worker that goes on to the search whatever verify_login returned
AfterLoginUnchecked(ok) ==
    /\ loginResult' = IF ok THEN "true" ELSE "false"
    /\ apiAttempt' = 0
    /\ pc' = "search"
    /\ UNCHANGED <<posts, completes, errors, exc>>

\* download_process after verify_login has returned `ok`: the error_signal
\* and the return, or the reads of config['download']['tags'] and
\* ['limit'], which raise KeyError when the field is missing
AfterLogin(ok) ==
    /\ loginResult' = IF ok THEN "true" ELSE "false"
    /\ apiAttempt' = 0
    /\ IF ok
       THEN IF missingField \in SearchFields
            THEN pc' = "except" /\ exc' = "other" /\ UNCHANGED errors
            ELSE pc' = "search" /\ UNCHANGED <<errors, exc>>
       ELSE pc' = "finally" /\ errors' = errors + 1 /\ UNCHANGED exc
    /\ UNCHANGED <<posts, completes>>

\* an empty search result reported with error_signal
AfterSearchAsError(ps) ==
    /\ posts' = ps
    /\ apiAttempt' = 0
    /\ IF ps = <<>>
       THEN pc' = "finally" /\ errors' = errors + 1
       ELSE pc' = "build" /\ UNCHANGED errors
    /\ UNCHANGED <<loginResult, completes, exc>>

\* an empty search result that ends the run without download_complete
AfterSearchSilent(ps) ==
    /\ posts' = ps
    /\ apiAttempt' = 0
    /\ pc' = IF ps = <<>> THEN "finally" ELSE "build"
    /\ UNCHANGED <<loginResult, completes, errors, exc>>

\* download_process after get_posts has returned the list `ps`
AfterSearch(ps) ==
    /\ posts' = ps
    /\ apiAttempt' = 0
    /\ IF ps = <<>>
       THEN pc' = "finally" /\ completes' = completes + 1
       ELSE pc' = "build" /\ UNCHANGED completes
    /\ UNCHANGED <<loginResult, errors, exc>>

\* _make_request has returned `res` ("json" or "none") to verify_login or
\* to get_posts; `ps` is the 'posts' member of a search response
ApiReturn(res, ps) ==
    IF pc = "login"
    THEN AfterLogin(res # "none")
    ELSE AfterSearch(IF res = "none" THEN <<>> ELSE ps)

\* a 401 answered like any other unexpected status
ReturnsOn200Only(o) == o = "ok"

\* the responses on which _make_request returns from inside its loop: the
\* JSON body on 200, None on 401
Returns(o) == o = "ok" \/ o = "unauth"

\* _make_request: one iteration of `for attempt in range(self.retry_count)`,
\* up to its return, its next iteration or its sleep
MakeRequestAttempt ==
    /\ pc \in {"login", "search"}
    /\ \E o \in ApiOutcomes, ps \in Served :
        /\ CountApiRequest(o)
        /\ CASE o = "exc" ->
                  /\ pc' = "except"
                  /\ exc' \in Raised
                  /\ UNCHANGED <<apiAttempt, posts, completes, errors,
                                 loginResult>>
             [] o # "exc" /\ Returns(o) ->
                  ApiReturn(IF o = "ok" THEN "json" ELSE "none", ps)
             [] o # "exc" /\ ~Returns(o) ->
                  IF apiAttempt < api_retry_count - 1
                  THEN IF o = "cerr"
                       THEN /\ pc' = IF pc = "login" THEN "login_sleep"
                                     ELSE "search_sleep"
                            /\ UNCHANGED <<apiAttempt, posts, completes,
                                           errors, exc, loginResult>>
                       ELSE /\ apiAttempt' = apiAttempt + 1
                            /\ UNCHANGED <<pc, posts, completes, errors, exc,
                                           loginResult>>
                  ELSE ApiReturn("none", <<>>)
    /\ UNCHANGED <<running, bi, download_files, cur, success, progress>>
    /\ UNCHANGED <<apiSession, trackerVars, dlVars, envVars, sanVars, uiVars>>

\* _make_request: asyncio.sleep(self.retry_delay) ends and the next
\* iteration begins
MakeRequestDelay ==
    /\ pc \in {"login_sleep", "search_sleep"}
    /\ pc' = IF pc = "login_sleep" THEN "login" ELSE "search"
    /\ apiAttempt' = apiAttempt + 1
    /\ UNCHANGED <<running, posts, bi, download_files, cur, success, completes,
                   errors, exc, progress>>
    /\ UNCHANGED <<apiSession, loginReqs, searchReqs, loginLast, loginResult>>
    /\ UNCHANGED <<trackerVars, dlVars, envVars, sanVars, uiVars>>

----------------------------------------------------------------------------
(* FileDownloader *)

\* the post whose file the current download_file call is about
Task == download_files[cur]

\* a download_file without the existence check
NeverExists == FALSE

\* filepath.exists() on the sanitized final path of the task
FinalExists == finalF[Task].ex

\* download_file up to its retry loop: the existence check of the final
\* path, and the resume offset read from the .part file
DownloadFileBegin ==
    /\ pc = "call"
    /\ dlCalls' = dlCalls + 1
    /\ IF FinalExists
       THEN /\ success' = TRUE
            /\ pc' = "record"
            /\ UNCHANGED <<dlAttempt, dlOffset, dlResume>>
       ELSE /\ dlOffset' = IF partF[Task].ex THEN Len(partF[Task].data) ELSE 0
            /\ dlResume' = partF[Task].ex
            /\ dlAttempt' = 0
            /\ pc' = "attempt"
            /\ UNCHANGED success
    /\ UNCHANGED <<running, posts, bi, download_files, cur, completes, errors, exc,
                   progress>>
    /\ UNCHANGED <<dlSession, fileReqs>>
    /\ UNCHANGED <<trackerVars, apiVars, envVars, sanVars, uiVars>>

\* a set of invalid characters that lacks the colon
invalid_chars_without_colon == {"<", ">", "\"", "/", "\\", "|", "?", "*"}

\* invalid_chars = '<>:"/\\|?*'
invalid_chars == {"<", ">", ":", "\"", "/", "\\", "|", "?", "*"}

\* the characters str.split() splits on, as far as the model's filenames
\* hold them
Whitespace == {" ", "\t"}

RECURSIVE Parts(_, _, _, _)
\* the parts of s[from..] between the characters of seps, i being the
\* position looked at
Parts(s, seps, from, i) ==
    IF i > Len(s) THEN <<SubSeq(s, from, Len(s))>>
    ELSE IF s[i] \in seps
         THEN <<SubSeq(s, from, i - 1)>> \o Parts(s, seps, i + 1, i + 1)
         ELSE Parts(s, seps, from, i + 1)

\* s.split(c): empty parts are kept
split_at(s, c) == Parts(s, {c}, 1, 1)

\* s.split(): split on runs of whitespace, no empty parts
split(s) == SelectSeq(Parts(s, Whitespace, 1, 1), LAMBDA w : w # <<>>)

RECURSIVE join(_, _)
\* c.join(parts)
join(c, parts) ==
    IF parts = <<>> THEN <<>>
    ELSE IF Len(parts) = 1 THEN parts[1]
    ELSE parts[1] \o <<c>> \o join(c, Tail(parts))

\* s[:k]
Slice(s, k) == SubSeq(s, 1, Min(k, Len(s)))

\* the filename without its invalid characters, its whitespace stripped
\* and collapsed
Cleaned(fn) ==
    join(" ", split(SelectSeq(fn, LAMBDA c : c \notin invalid_chars)))

\* a truncation that cuts the whole name at max_length
TruncatedWhole(s) == Slice(s, max_length)

\* the body of `if len(sanitized) > 100`
Truncated(s) ==
    LET name_parts == split_at(s, ".")
    IN  IF Len(name_parts) > 1
        THEN LET extension == name_parts[Len(name_parts)]
                 base_name == join(".", SubSeq(name_parts, 1,
                                               Len(name_parts) - 1))
             IN  Slice(base_name, base_cut) \o <<".">> \o extension
        ELSE Slice(s, max_length)

\* FileDownloader._sanitize_filename
sanitize_filename(fn) ==
    LET s == Cleaned(fn)
    IN  IF Len(s) > max_length THEN Truncated(s) ELSE s

\* the request carries a Range header
RangeHeader == dlResume /\ dlOffset > 0

\* the statuses the file server may answer with: 404, for any status that
\* is neither 200 nor 206, and when it holds the resource, 206 to a request
\* with a satisfiable Range when it honours Range, 200 to a request without
\* Range and to any request when it ignores Range
FileStatuses ==
    {404}
    \cup (IF available /\ RangeHeader /\ rangeOK /\ dlOffset < remoteSize
          THEN {206} ELSE {})
    \cup (IF available /\ ~(RangeHeader /\ rangeOK) THEN {200} ELSE {})

\* the body sent with a status
Body(st) == IF st = 206 THEN Suffix(Remote, dlOffset) ELSE Remote

\* a retry loop that runs once more than retry_count
DownloadFileRetryOnceMore(caught) ==
    IF dlAttempt < dl_retry_count
    THEN /\ pc' = IF caught THEN "attempt_sleep" ELSE pc
         /\ dlAttempt' = IF caught THEN dlAttempt ELSE dlAttempt + 1
         /\ UNCHANGED <<success, exc>>
    ELSE /\ success' = FALSE
         /\ pc' = "record"
         /\ UNCHANGED <<dlAttempt, exc>>

\* download_file leaves an iteration of its retry loop without returning
\* success, after an aiohttp.ClientError (`caught`) or a status it does not
\* accept: the sleep or the next iteration, or `return False` after the last
DownloadFileRetry(caught) ==
    IF dlAttempt < dl_retry_count - 1
    THEN /\ pc' = IF caught THEN "attempt_sleep" ELSE pc
         /\ dlAttempt' = IF caught THEN dlAttempt ELSE dlAttempt + 1
         /\ UNCHANGED <<success, exc>>
    ELSE /\ success' = FALSE
         /\ pc' = "record"
         /\ UNCHANGED <<dlAttempt, exc>>

\* a write loop that always opens the .part file 'wb'
WrittenOverwriting(st, k) == File(Prefix(Body(st), k))

\* what the write loop leaves in the .part file after k chunks of the body:
\* opened 'ab' when resuming, 'wb' otherwise
Written(st, k) ==
    File((IF dlResume THEN partF[Task].data ELSE <<>>) \o Prefix(Body(st), k))

\* a download_file that takes the body of any response
AcceptedAny(st) == TRUE

\* `response.status == 200 or (resume_download and response.status == 206)`
Accepted(st) == st = 200 \/ (dlResume /\ st = 206)

\* a transfer written to the final path itself
LeftOnFinalPath(st, k) ==
    /\ finalF' = [finalF EXCEPT ![Task] = Written(st, k)]
    /\ UNCHANGED partF

\* the files after the write loop was left by an exception, k chunks of the
\* body written
LeftUnfinished(st, k) ==
    /\ partF' = [partF EXCEPT ![Task] = Written(st, k)]
    /\ UNCHANGED finalF

\* download_file: one iteration of `for attempt in range(self.retry_count)`
DownloadFileAttempt ==
    /\ pc = "attempt"
    /\ fileReqs' = fileReqs + 1
    /\ \/ \* session.get raises aiohttp.ClientError
          /\ DownloadFileRetry(TRUE)
          /\ UNCHANGED <<finalF, partF>>
       \/ \* session.get raises another exception (asyncio.TimeoutError)
          /\ pc' = "except"
          /\ exc' = "timeout"
          /\ UNCHANGED <<success, dlAttempt, finalF, partF>>
       \/ \E st \in FileStatuses :
            IF Accepted(st)
            THEN \/ \* the body is read to its end and the .part file
                    \* renamed
                    /\ finalF' = [finalF EXCEPT
                                    ![Task] = Written(st, Len(Body(st)))]
                    /\ partF' = [partF EXCEPT ![Task] = NoFile]
                    /\ success' = TRUE
                    /\ pc' = "record"
                    /\ UNCHANGED <<dlAttempt, exc>>
                 \/ \* the transfer is interrupted after k chunks
                    \* (ClientError)
                    \E k \in 0..Len(Body(st)) :
                        /\ LeftUnfinished(st, k)
                        /\ DownloadFileRetry(TRUE)
                 \/ \* the read raises asyncio.TimeoutError, or open,
                    \* f.write or rename raises OSError
                    \E k \in 0..Len(Body(st)) :
                        /\ LeftUnfinished(st, k)
                        /\ pc' = "except"
                        /\ exc' \in Raised
                        /\ UNCHANGED <<success, dlAttempt>>
            ELSE /\ DownloadFileRetry(FALSE)
                 /\ UNCHANGED <<finalF, partF>>
    /\ UNCHANGED <<running, posts, bi, download_files, cur, completes, errors,
                   progress>>
    /\ UNCHANGED <<dlSession, dlOffset, dlResume, dlCalls>>
    /\ UNCHANGED <<remoteSize, rangeOK, available, limit, serverPosts,
                   missingField, sanVars, uiVars>>
    /\ UNCHANGED <<trackerVars, apiVars>>

\* download_file: asyncio.sleep(self.retry_delay) ends and the next iteration
\* begins
DownloadFileDelay ==
    /\ pc = "attempt_sleep"
    /\ pc' = "attempt"
    /\ dlAttempt' = dlAttempt + 1
    /\ UNCHANGED <<running, posts, bi, download_files, cur, success, completes,
                   errors, exc, progress>>
    /\ UNCHANGED <<dlSession, dlOffset, dlResume, fileReqs, dlCalls>>
    /\ UNCHANGED <<trackerVars, apiVars, envVars, sanVars, uiVars>>

----------------------------------------------------------------------------
(* DownloaderThread.download_process, the worker thread *)

\* the arguments of progress_update.emit on the tracker as it will be
ProgressArgs(done, failed, total) ==
    <<done, total, get_progress_percentage(done, failed, total)>>

\* the client and the downloader are built and initialized, and the login
\* is announced; or building one of them raises: the client before it has
\* a session, or the downloader after the client has got one. A missing
\* field of config['api'] or config['credentials'] makes the first raise,
\* a missing config['download']['save_directory'] the second
Setup ==
    /\ pc = "start"
    /\ \/ /\ missingField \notin ClientFields \cup {"download.save_directory"}
          /\ apiSession' = "open" /\ dlSession' = "open" /\ pc' = "login"
          /\ UNCHANGED exc
       \/ /\ missingField \notin ClientFields
          /\ apiSession' = "open" /\ dlSession' = "none" /\ pc' = "except"
          /\ exc' = "other"
       \/ /\ apiSession' = "none" /\ dlSession' = "none" /\ pc' = "except"
          /\ exc' = "other"
    /\ UNCHANGED <<running, posts, bi, download_files, cur, success, completes,
                   errors, progress>>
    /\ UNCHANGED <<apiAttempt, loginReqs, searchReqs, loginLast, loginResult>>
    /\ UNCHANGED <<dlAttempt, dlOffset, dlResume, fileReqs, dlCalls>>
    /\ UNCHANGED <<trackerVars, envVars, sanVars, uiVars>>

\* a build loop that makes a task of every post, with a file url or not
BuildStepNoFilter ==
    /\ pc = "build"
    /\ IF bi > Len(posts) \/ ~running
       THEN pc' = "addfiles" /\ UNCHANGED <<bi, download_files>>
       ELSE /\ bi' = bi + 1
            /\ download_files' = Append(download_files, bi)
            /\ UNCHANGED pc
    /\ UNCHANGED <<running, posts, cur, success, completes, errors, exc,
                   progress>>
    /\ UNCHANGED <<trackerVars, apiVars, dlVars, envVars, sanVars, uiVars>>

\* one iteration of `for post in posts`, or its end
BuildStep ==
    /\ pc = "build"
    /\ IF bi > Len(posts) \/ ~running
       THEN pc' = "addfiles" /\ UNCHANGED <<bi, download_files>>
       ELSE /\ bi' = bi + 1
            /\ download_files' = IF posts[bi] THEN Append(download_files, bi)
                                 ELSE download_files
            /\ UNCHANGED pc
    /\ UNCHANGED <<running, posts, cur, success, completes, errors, exc, progress>>
    /\ UNCHANGED <<trackerVars, apiVars, dlVars, envVars, sanVars, uiVars>>

\* the tracker gets the number of tasks and the first progress_update is
\* emitted
AddFiles ==
    /\ pc = "addfiles"
    /\ add_files(Len(download_files))
    /\ progress' = ProgressArgs(downloaded_files, failed_downloads,
                                total_files + Len(download_files))
    /\ cur' = 1
    /\ pc' = "loopcheck"
    /\ UNCHANGED <<running, posts, bi, download_files, success, completes,
                   errors, exc>>
    /\ UNCHANGED <<apiVars, dlVars, envVars, sanVars, uiVars>>

\* a download loop that does not test self.running
LoopCheckIgnoringFlag ==
    /\ pc = "loopcheck"
    /\ pc' = IF cur <= Len(download_files) THEN "call" ELSE "complete"
    /\ UNCHANGED <<running, posts, bi, download_files, cur, success, completes,
                   errors, exc, progress>>
    /\ UNCHANGED <<trackerVars, apiVars, dlVars, envVars, sanVars, uiVars>>

\* the head of `for i, download_file in enumerate(download_files)` and the
\* test of self.running that opens its body
LoopCheck ==
    /\ pc = "loopcheck"
    /\ pc' = IF cur <= Len(download_files) /\ running THEN "call" ELSE "complete"
    /\ UNCHANGED <<running, posts, bi, download_files, cur, success, completes,
                   errors, exc, progress>>
    /\ UNCHANGED <<trackerVars, apiVars, dlVars, envVars, sanVars, uiVars>>

\* a loop that a failed task ends
RecordStopsOnFailure ==
    /\ pc = "record"
    /\ register_download(success)
    /\ progress' = ProgressArgs(IF success THEN downloaded_files + 1
                                ELSE downloaded_files,
                                IF success THEN failed_downloads
                                ELSE failed_downloads + 1,
                                total_files)
    /\ cur' = cur + 1
    /\ pc' = IF ~success THEN "complete"
             ELSE IF cur < Len(download_files) /\ running THEN "sleep"
             ELSE "loopcheck"
    /\ UNCHANGED <<running, posts, bi, download_files, success, completes,
                   errors, exc>>
    /\ UNCHANGED <<apiVars, dlVars, envVars, sanVars, uiVars>>

\* a loop that goes from one task to the next without sleeping
RecordWithoutDelay ==
    /\ pc = "record"
    /\ register_download(success)
    /\ progress' = ProgressArgs(IF success THEN downloaded_files + 1
                                ELSE downloaded_files,
                                IF success THEN failed_downloads
                                ELSE failed_downloads + 1,
                                total_files)
    /\ cur' = cur + 1
    /\ pc' = "loopcheck"
    /\ UNCHANGED <<running, posts, bi, download_files, success, completes,
                   errors, exc>>
    /\ UNCHANGED <<apiVars, dlVars, envVars, sanVars, uiVars>>

\* the outcome of the task is registered and reported, and the worker goes
\* to sleep before the next task when there is one and self.running holds
Record ==
    /\ pc = "record"
    /\ register_download(success)
    /\ progress' = ProgressArgs(IF success THEN downloaded_files + 1
                                ELSE downloaded_files,
                                IF success THEN failed_downloads
                                ELSE failed_downloads + 1,
                                total_files)
    /\ cur' = cur + 1
    /\ pc' = IF cur < Len(download_files) /\ running THEN "sleep" ELSE "loopcheck"
    /\ UNCHANGED <<running, posts, bi, download_files, success, completes,
                   errors, exc>>
    /\ UNCHANGED <<apiVars, dlVars, envVars, sanVars, uiVars>>

\* asyncio.sleep(self.api_client.api_config.delay) ends
RateLimitDelay ==
    /\ pc = "sleep"
    /\ pc' = "loopcheck"
    /\ UNCHANGED <<running, posts, bi, download_files, cur, success, completes,
                   errors, exc, progress>>
    /\ UNCHANGED <<trackerVars, apiVars, dlVars, envVars, sanVars, uiVars>>

\* a completion that is followed by the handler of `except Exception`
CompleteThenExcept ==
    /\ pc = "complete"
    /\ completes' = completes + 1
    /\ pc' = "except"
    /\ UNCHANGED <<running, posts, bi, download_files, cur, success, errors, exc,
                   progress>>
    /\ UNCHANGED <<trackerVars, apiVars, dlVars, envVars, sanVars, uiVars>>

\* the completion message and download_complete
Complete ==
    /\ pc = "complete"
    /\ completes' = completes + 1
    /\ pc' = "finally"
    /\ UNCHANGED <<running, posts, bi, download_files, cur, success, errors, exc,
                   progress>>
    /\ UNCHANGED <<trackerVars, apiVars, dlVars, envVars, sanVars, uiVars>>

\* an `except Exception` that registers the task in flight as failed
ExceptCountsFailure ==
    /\ pc = "except"
    /\ errors' = errors + 1
    /\ pc' = "finally"
    /\ IF dlCalls > 0 THEN register_download(FALSE)
       ELSE UNCHANGED trackerVars
    /\ UNCHANGED <<running, posts, bi, download_files, cur, success, completes,
                   exc, progress>>
    /\ UNCHANGED <<apiVars, dlVars, envVars, sanVars, uiVars>>

\* `except Exception`: error_signal
Except ==
    /\ pc = "except"
    /\ errors' = errors + 1
    /\ pc' = "finally"
    /\ UNCHANGED <<running, posts, bi, download_files, cur, success, completes,
                   exc, progress>>
    /\ UNCHANGED <<trackerVars, apiVars, dlVars, envVars, sanVars, uiVars>>

\* APIClient.close
api_close == IF apiSession # "none" THEN "none" ELSE apiSession

\* a close that leaves the session open
dl_close_leak == dlSession

\* FileDownloader.close
dl_close == IF dlSession # "none" THEN "none" ELSE dlSession

\* `finally`: both sessions are closed, and the thread ends
Finally ==
    /\ pc = "finally"
    /\ apiSession' = api_close
    /\ dlSession' = dl_close
    /\ pc' = "done"
    /\ UNCHANGED <<running, posts, bi, download_files, cur, success, completes,
                   errors, exc, progress>>
    /\ UNCHANGED <<apiAttempt, loginReqs, searchReqs, loginLast, loginResult>>
    /\ UNCHANGED <<dlAttempt, dlOffset, dlResume, fileReqs, dlCalls>>
    /\ UNCHANGED <<trackerVars, envVars, sanVars, uiVars>>

\* DownloaderThread.stop, called on the UI thread while the worker runs
stop ==
    /\ pc # "done"
    /\ running
    /\ running' = FALSE
    /\ UNCHANGED <<pc, posts, bi, download_files, cur, success, completes,
                   errors, exc, progress>>
    /\ UNCHANGED <<trackerVars, apiVars, dlVars, envVars, sanVars, uiVars>>

----------------------------------------------------------------------------
(* Spec: a run of the worker thread, with the UI thread's stop(), in a save  *)
(* directory that earlier runs may have left files in. The remote files of *)
(* a run are one chunk long here; FileSpec follows download_file over       *)
(* longer files and every .part file.                                       *)

TrackerInit ==
    /\ downloaded_files = 0
    /\ total_files = 0
    /\ failed_downloads = 0
    /\ addCalls = 0

ApiInit ==
    /\ apiSession = "none"
    /\ apiAttempt = 0
    /\ loginReqs = 0
    /\ searchReqs = 0
    /\ loginLast = "none"
    /\ loginResult = "none"

DlInit ==
    /\ dlAttempt = 0
    /\ dlOffset = 0
    /\ dlResume = FALSE
    /\ fileReqs = 0
    /\ dlCalls = 0

\* no _sanitize_filename call is followed
SanIdle ==
    /\ filename = <<>>
    /\ sanitized = <<>>

\* the window after start_download created the thread that is followed
UiStarted ==
    /\ download_button = FALSE
    /\ stop_button = TRUE
    /\ delivered = 0
    /\ started = 1
    /\ replaced = 0

\* files a directory may hold for a post: none, the complete file, or a
\* .part file holding the first k chunks
FinalFiles == {NoFile, File(Remote)}
PartFiles == {NoFile} \cup {File(Prefix(Remote, k)) : k \in 0..remoteSize}

\* a worker thread as DownloaderThread.__init__ leaves it, before run()
Start ==
    /\ pc = "start"
    /\ running = TRUE
    /\ posts = <<>>
    /\ bi = 1
    /\ download_files = <<>>
    /\ cur = 1
    /\ success = FALSE
    /\ completes = 0
    /\ errors = 0
    /\ exc = "none"
    /\ progress = <<>>
    /\ TrackerInit
    /\ ApiInit
    /\ DlInit
    /\ SanIdle
    /\ UiStarted
    /\ dlSession = "none"
    /\ remoteSize = 1
    /\ rangeOK = TRUE
    /\ available = TRUE
    /\ limit = MaxPosts
    /\ serverPosts \in PostLists
    /\ finalF \in [PostIds -> FinalFiles]
    /\ partF \in [PostIds -> {NoFile, File(<<>>)}]
    /\ \A p \in PostIds : ~(finalF[p].ex /\ partF[p].ex)

\* the configuration MainWindow.create_config_dict builds holds every field
Init ==
    /\ Start
    /\ missingField = "none"

Next ==
    \/ Setup
    \/ MakeRequestAttempt
    \/ MakeRequestDelay
    \/ BuildStep
    \/ AddFiles
    \/ LoopCheck
    \/ DownloadFileBegin
    \/ DownloadFileAttempt
    \/ DownloadFileDelay
    \/ Record
    \/ RateLimitDelay
    \/ Complete
    \/ Except
    \/ Finally
    \/ stop

Spec == Init /\ [][Next]_vars

\* ConfigSpec: a DownloaderThread given a configuration that may lack one
\* required field, in an empty save directory
ConfigInit ==
    /\ Start
    /\ missingField \in RequiredFields \cup {"none"}
    /\ \A p \in PostIds : ~finalF[p].ex /\ ~partF[p].ex

ConfigSpec == ConfigInit /\ [][Next]_vars

\* the steps of the worker thread: every action but the UI thread's stop
Worker ==
    \/ Setup
    \/ MakeRequestAttempt
    \/ MakeRequestDelay
    \/ BuildStep
    \/ AddFiles
    \/ LoopCheck
    \/ DownloadFileBegin
    \/ DownloadFileAttempt
    \/ DownloadFileDelay
    \/ Record
    \/ RateLimitDelay
    \/ Complete
    \/ Except
    \/ Finally

\* a run that starts in an empty save directory
LiveInit ==
    /\ Init
    /\ \A p \in PostIds : ~finalF[p].ex /\ ~partF[p].ex

\* LiveSpec: a run whose worker thread keeps running: QThread.run drives
\* download_process to its end with asyncio.run, every network operation
\* returning or failing and every sleep ending
LiveSpec == LiveInit /\ [][Next]_vars /\ WF_vars(Worker)

----------------------------------------------------------------------------
(* UISpec: the window and the worker threads it creates. The Start and     *)
(* Stop buttons are clicked only while enabled; the slots of the terminal  *)
(* signals run on the UI thread, some time after the worker emitted them.  *)

\* QThread.isRunning of self.download_thread
isRunning == pc \notin {"nothread", "done"}

\* MainWindow.start_download, the inputs being valid: the buttons are
\* switched and a new DownloaderThread is put in self.download_thread and
\* started, whatever the thread that was there is doing
start_download ==
    /\ download_button
    /\ started < MaxRuns
    /\ download_button' = FALSE
    /\ stop_button' = TRUE
    /\ started' = started + 1
    /\ delivered' = 0
    /\ replaced' = IF isRunning THEN replaced + 1 ELSE replaced
    /\ pc' = "start"
    /\ running' = TRUE
    /\ posts' = <<>>
    /\ bi' = 1
    /\ download_files' = <<>>
    /\ cur' = 1
    /\ success' = FALSE
    /\ completes' = 0
    /\ errors' = 0
    /\ exc' = "none"
    /\ progress' = <<>>
    /\ downloaded_files' = 0
    /\ total_files' = 0
    /\ failed_downloads' = 0
    /\ addCalls' = 0
    /\ apiSession' = "none"
    /\ apiAttempt' = 0
    /\ loginReqs' = 0
    /\ searchReqs' = 0
    /\ loginLast' = "none"
    /\ loginResult' = "none"
    /\ dlSession' = "none"
    /\ dlAttempt' = 0
    /\ dlOffset' = 0
    /\ dlResume' = FALSE
    /\ fileReqs' = 0
    /\ dlCalls' = 0
    /\ UNCHANGED <<envVars, sanVars>>

\* MainWindow.stop_download, the confirmation answered Yes
stop_download ==
    /\ stop_button
    /\ isRunning
    /\ running' = FALSE
    /\ stop_button' = FALSE
    /\ UNCHANGED <<pc, posts, bi, download_files, cur, success, completes,
                   errors, exc, progress>>
    /\ UNCHANGED <<download_button, delivered, started, replaced>>
    /\ UNCHANGED <<trackerVars, apiVars, dlVars, envVars, sanVars>>

\* the buttons as both slots of the terminal signals leave them
ButtonsReset ==
    /\ download_button' = TRUE
    /\ stop_button' = FALSE
    /\ delivered' = delivered + 1
    /\ UNCHANGED <<started, replaced>>
    /\ UNCHANGED <<orchVars, trackerVars, apiVars, dlVars, envVars, sanVars>>

\* MainWindow.download_finished, the slot of download_complete
download_finished ==
    /\ delivered < completes + errors
    /\ completes > 0
    /\ ButtonsReset

\* MainWindow.handle_error, the slot of error_signal
handle_error ==
    /\ delivered < completes + errors
    /\ errors > 0
    /\ ButtonsReset

\* a thread that start_download replaced while it was running returns
\* from run()
ReplacedThreadEnds ==
    /\ replaced > 0
    /\ replaced' = replaced - 1
    /\ UNCHANGED <<download_button, stop_button, delivered, started>>
    /\ UNCHANGED <<orchVars, trackerVars, apiVars, dlVars, envVars, sanVars>>

\* the window as MainWindow.__init__ leaves it: no thread, Start enabled,
\* Stop disabled, an empty save directory
UIInit ==
    /\ pc = "nothread"
    /\ download_button = TRUE
    /\ stop_button = FALSE
    /\ delivered = 0
    /\ started = 0
    /\ replaced = 0
    /\ running = TRUE
    /\ posts = <<>>
    /\ bi = 1
    /\ download_files = <<>>
    /\ cur = 1
    /\ success = FALSE
    /\ completes = 0
    /\ errors = 0
    /\ exc = "none"
    /\ progress = <<>>
    /\ TrackerInit
    /\ ApiInit
    /\ DlInit
    /\ filename = <<>>
    /\ sanitized = <<>>
    /\ dlSession = "none"
    /\ remoteSize = 1
    /\ rangeOK = TRUE
    /\ available = TRUE
    /\ limit = MaxPosts
    /\ missingField = "none"
    /\ serverPosts \in PostLists
    /\ finalF = [p \in PostIds |-> NoFile]
    /\ partF = [p \in PostIds |-> NoFile]

UINext ==
    \/ Worker
    \/ start_download
    \/ stop_download
    \/ download_finished
    \/ handle_error
    \/ ReplacedThreadEnds

UISpec == UIInit /\ [][UINext]_vars

----------------------------------------------------------------------------
(* LegacySpec: the legacy worker (src/main.py), DownloaderThread.login and   *)
(* download_posts, with the UI thread's stop(). A post is stored at its     *)
(* final path directly; there is no .part file, no retry and no tracker.   *)

\* what a request of the legacy worker may end in: a 200 response, a
\* response with another status, or an exception
LegacyOutcomes == {"ok", "status", "exc"}

\* login: one request; every outcome but a 200 emits error_signal and
\* returns False, and download_posts returns
LegacyLogin ==
    /\ pc = "legacy_login"
    /\ loginReqs' = loginReqs + 1
    /\ \E o \in LegacyOutcomes :
         IF o = "ok"
         THEN pc' = "legacy_fetch" /\ UNCHANGED errors
         ELSE pc' = "done" /\ errors' = errors + 1
    /\ UNCHANGED <<running, posts, bi, download_files, cur, success, completes,
                   exc, progress>>
    /\ UNCHANGED <<apiSession, apiAttempt, searchReqs, loginLast, loginResult>>
    /\ UNCHANGED <<trackerVars, dlVars, envVars, sanVars, uiVars>>

\* download_posts: the search request. A status other than 200 and an
\* exception emit error_signal; an empty list of posts returns without a
\* signal
LegacyFetch ==
    /\ pc = "legacy_fetch"
    /\ searchReqs' = searchReqs + 1
    /\ \E o \in LegacyOutcomes, ps \in Served :
         IF o = "ok"
         THEN /\ posts' = ps
              /\ pc' = IF ps = <<>> THEN "done" ELSE "legacy_loop"
              /\ UNCHANGED errors
         ELSE /\ pc' = "done"
              /\ errors' = errors + 1
              /\ UNCHANGED posts
    /\ UNCHANGED <<running, bi, download_files, cur, success, completes, exc,
                   progress>>
    /\ UNCHANGED <<apiSession, apiAttempt, loginReqs, loginLast, loginResult>>
    /\ UNCHANGED <<trackerVars, dlVars, envVars, sanVars, uiVars>>

\* download_posts: the head of `for i, post in enumerate(posts)` and the
\* tests that open its body: self.running, the url of the post, the
\* existence of its file; after the last post, download_complete
LegacyLoop ==
    /\ pc = "legacy_loop"
    /\ IF bi > Len(posts)
       THEN /\ completes' = completes + 1
            /\ pc' = "done"
            /\ UNCHANGED bi
       ELSE IF ~running
       THEN /\ pc' = "done"
            /\ UNCHANGED <<bi, completes>>
       ELSE IF ~posts[bi] \/ finalF[bi].ex
       THEN /\ bi' = bi + 1
            /\ UNCHANGED <<pc, completes>>
       ELSE /\ pc' = "legacy_get"
            /\ UNCHANGED <<bi, completes>>
    /\ UNCHANGED <<running, posts, download_files, cur, success, errors, exc,
                   progress>>
    /\ UNCHANGED <<trackerVars, apiVars, dlVars, envVars, sanVars, uiVars>>

\* download_posts: the request of the file. On a 200 the final path is
\* opened 'wb' and the body read and written: k chunks reach the file, all
\* of them unless read() or f.write raises. Every exception is caught and
\* logged, and the worker goes to sleep
LegacyGet ==
    /\ pc = "legacy_get"
    /\ fileReqs' = fileReqs + 1
    /\ \E o \in LegacyOutcomes :
         IF o = "ok"
         THEN \E k \in 0..remoteSize :
                 finalF' = [finalF EXCEPT ![bi] = File(Prefix(Remote, k))]
         ELSE UNCHANGED finalF
    /\ pc' = "legacy_sleep"
    /\ UNCHANGED <<running, posts, bi, download_files, cur, success, completes,
                   errors, exc, progress>>
    /\ UNCHANGED <<dlSession, dlAttempt, dlOffset, dlResume, dlCalls>>
    /\ UNCHANGED <<partF, remoteSize, rangeOK, available, limit, serverPosts,
                   missingField>>
    /\ UNCHANGED <<trackerVars, apiVars, sanVars, uiVars>>

\* download_posts: asyncio.sleep(1) ends and the loop goes to the next post
LegacySleep ==
    /\ pc = "legacy_sleep"
    /\ bi' = bi + 1
    /\ pc' = "legacy_loop"
    /\ UNCHANGED <<running, posts, download_files, cur, success, completes,
                   errors, exc, progress>>
    /\ UNCHANGED <<trackerVars, apiVars, dlVars, envVars, sanVars, uiVars>>

\* the legacy DownloaderThread.stop, called on the UI thread while the
\* worker runs
LegacyStop ==
    /\ pc # "done"
    /\ running
    /\ running' = FALSE
    /\ UNCHANGED <<pc, posts, bi, download_files, cur, success, completes,
                   errors, exc, progress>>
    /\ UNCHANGED <<trackerVars, apiVars, dlVars, envVars, sanVars, uiVars>>

\* a legacy worker thread as __init__ leaves it, in a save directory that
\* holds the complete file of any post
LegacyInit ==
    /\ pc = "legacy_login"
    /\ running = TRUE
    /\ posts = <<>>
    /\ bi = 1
    /\ download_files = <<>>
    /\ cur = 1
    /\ success = FALSE
    /\ completes = 0
    /\ errors = 0
    /\ exc = "none"
    /\ progress = <<>>
    /\ TrackerInit
    /\ ApiInit
    /\ DlInit
    /\ filename = <<>>
    /\ sanitized = <<>>
    /\ UiStarted
    /\ dlSession = "none"
    /\ remoteSize = MaxSize
    /\ rangeOK = TRUE
    /\ available = TRUE
    /\ limit = MaxPosts
    /\ missingField = "none"
    /\ serverPosts \in PostLists
    /\ finalF \in [PostIds -> FinalFiles]
    /\ partF = [p \in PostIds |-> NoFile]

LegacyNext ==
    \/ LegacyLogin
    \/ LegacyFetch
    \/ LegacyLoop
    \/ LegacyGet
    \/ LegacySleep
    \/ LegacyStop

LegacySpec == LegacyInit /\ [][LegacyNext]_vars

----------------------------------------------------------------------------
(* FileSpec: download_file on one task, called again by later runs, in a    *)
(* directory holding any final file and any .part file for it               *)

\* a later run of the worker reaches the same task and calls download_file
DownloadFileAgain ==
    /\ pc = "record"
    /\ dlCalls < MaxCalls
    /\ pc' = "call"
    /\ UNCHANGED <<running, posts, bi, download_files, cur, success, completes,
                   errors, exc, progress>>
    /\ UNCHANGED <<trackerVars, apiVars, dlVars, envVars, sanVars, uiVars>>

FileInit ==
    /\ pc = "call"
    /\ running = TRUE
    /\ posts = <<TRUE>>
    /\ bi = 2
    /\ download_files = <<1>>
    /\ cur = 1
    /\ success = FALSE
    /\ completes = 0
    /\ errors = 0
    /\ exc = "none"
    /\ progress = <<>>
    /\ TrackerInit
    /\ ApiInit
    /\ DlInit
    /\ SanIdle
    /\ UiStarted
    /\ dlSession = "open"
    /\ remoteSize \in 1..MaxSize
    /\ rangeOK \in BOOLEAN
    /\ available \in BOOLEAN
    /\ limit = MaxPosts
    /\ missingField = "none"
    /\ serverPosts = <<TRUE>>
    /\ finalF \in [PostIds -> FinalFiles]
    /\ partF \in [PostIds -> PartFiles]
    /\ \A p \in PostIds \ {1} : finalF[p] = NoFile /\ partF[p] = NoFile

FileNext ==
    \/ DownloadFileBegin
    \/ DownloadFileAttempt
    \/ DownloadFileDelay
    \/ DownloadFileAgain

FileSpec == FileInit /\ [][FileNext]_vars

----------------------------------------------------------------------------
(* TrackerSpec: a DownloadTracker on its own, under any sequence of         *)
(* add_files and register_download                                         *)

TrackerAddFiles ==
    /\ pc = "tracker"
    /\ addCalls < MaxAddCalls
    /\ \E n \in 0..MaxAdd : add_files(n)
    /\ UNCHANGED <<orchVars, apiVars, dlVars, envVars, sanVars, uiVars>>

TrackerRegister ==
    /\ pc = "tracker"
    /\ downloaded_files + failed_downloads < MaxOutcomes
    /\ \E ok \in BOOLEAN : register_download(ok)
    /\ UNCHANGED <<orchVars, apiVars, dlVars, envVars, sanVars, uiVars>>

\* the variables a tracker on its own does not use
IdleWorker ==
    /\ running = TRUE
    /\ posts = <<>>
    /\ bi = 1
    /\ download_files = <<>>
    /\ cur = 1
    /\ success = FALSE
    /\ completes = 0
    /\ errors = 0
    /\ exc = "none"
    /\ progress = <<>>
    /\ ApiInit
    /\ DlInit
    /\ SanIdle
    /\ UiStarted
    /\ dlSession = "none"
    /\ remoteSize = 1
    /\ rangeOK = TRUE
    /\ available = TRUE
    /\ limit = MaxPosts
    /\ missingField = "none"
    /\ serverPosts = <<>>
    /\ finalF = [p \in PostIds |-> NoFile]
    /\ partF = [p \in PostIds |-> NoFile]

TrackerSpecInit ==
    /\ pc = "tracker"
    /\ TrackerInit
    /\ IdleWorker

TrackerNext ==
    \/ TrackerAddFiles
    \/ TrackerRegister

TrackerSpec == TrackerSpecInit /\ [][TrackerNext]_vars

----------------------------------------------------------------------------
(* PctSpec: get_progress_percentage, as progress_update reports it, on any  *)
(* counters a run can hold                                                  *)

\* progress_update.emit(downloaded_files, total_files, percentage)
EmitProgress ==
    /\ pc = "pct"
    /\ progress' = ProgressArgs(downloaded_files, failed_downloads, total_files)
    /\ pc' = "pctdone"
    /\ UNCHANGED <<running, posts, bi, download_files, cur, success, completes,
                   errors, exc>>
    /\ UNCHANGED <<trackerVars, apiVars, dlVars, envVars, sanVars, uiVars>>

PctInit ==
    /\ pc = "pct"
    /\ downloaded_files \in 0..MaxPctDone
    /\ failed_downloads \in 0..MaxPctFailed
    /\ total_files \in 0..MaxPctTotal
    /\ downloaded_files + failed_downloads <= total_files
    /\ addCalls = 1
    /\ IdleWorker

PctNext == EmitProgress

PctSpec == PctInit /\ [][PctNext]_vars

----------------------------------------------------------------------------
(* SearchSpec: the search of a run that has logged in, and the task list    *)
(* built from it, for any `limit` and a server holding up to MaxMatches     *)
(* posts, more than one response carries                                    *)

MatchLists == UNION {[1..n -> BOOLEAN] : n \in 0..MaxMatches}

SearchInit ==
    /\ pc = "search"
    /\ running = TRUE
    /\ posts = <<>>
    /\ bi = 1
    /\ download_files = <<>>
    /\ cur = 1
    /\ success = FALSE
    /\ completes = 0
    /\ errors = 0
    /\ exc = "none"
    /\ progress = <<>>
    /\ TrackerInit
    /\ apiSession = "open"
    /\ apiAttempt = 0
    /\ loginReqs = 1
    /\ searchReqs = 0
    /\ loginLast = "ok"
    /\ loginResult = "true"
    /\ DlInit
    /\ SanIdle
    /\ UiStarted
    /\ dlSession = "open"
    /\ remoteSize = 1
    /\ rangeOK = TRUE
    /\ available = TRUE
    /\ limit \in 0..MaxLimit
    /\ missingField = "none"
    /\ serverPosts \in MatchLists
    /\ finalF = [p \in PostIds |-> NoFile]
    /\ partF = [p \in PostIds |-> NoFile]

SearchNext ==
    \/ MakeRequestAttempt
    \/ MakeRequestDelay
    \/ BuildStep
    \/ AddFiles

SearchSpec == SearchInit /\ [][SearchNext]_vars

----------------------------------------------------------------------------
(* SanSpec: _sanitize_filename on filenames made of a first character, a    *)
(* run of "a", up to MaxMid separators and a run of "b", the runs long      *)
(* enough to pass max_length                                                *)

Alphabet ==
    {"<", ">", ":", "\"", "/", "\\", "|", "?", "*", " ", "\t", "a", "."}
MidChars == {".", " ", "\t"}

Run(c, n) == [i \in 1..n |-> c]

Heads == {<<>>} \cup {<<c>> : c \in Alphabet}
Mids == UNION {[1..n -> MidChars] : n \in 0..MaxMid}
RunLengths == {0} \cup ((base_cut - 1)..(max_length + MaxOver))

Filenames ==
    {h \o Run("a", n) \o m \o Run("b", e) :
        h \in Heads, n \in RunLengths, m \in Mids, e \in 0..MaxExt}

\* sanitized_filename = self._sanitize_filename(download_file.filename)
Sanitize ==
    /\ pc = "san"
    /\ sanitized' = sanitize_filename(filename)
    /\ pc' = "sandone"
    /\ UNCHANGED filename
    /\ UNCHANGED <<running, posts, bi, download_files, cur, success, completes,
                   errors, exc, progress>>
    /\ UNCHANGED <<trackerVars, apiVars, dlVars, envVars, uiVars>>

SanInit ==
    /\ pc = "san"
    /\ filename \in Filenames
    /\ sanitized = <<>>
    /\ UiStarted
    /\ running = TRUE
    /\ posts = <<>>
    /\ bi = 1
    /\ download_files = <<>>
    /\ cur = 1
    /\ success = FALSE
    /\ completes = 0
    /\ errors = 0
    /\ exc = "none"
    /\ progress = <<>>
    /\ TrackerInit
    /\ ApiInit
    /\ DlInit
    /\ dlSession = "open"
    /\ remoteSize = 1
    /\ rangeOK = TRUE
    /\ available = TRUE
    /\ limit = MaxPosts
    /\ missingField = "none"
    /\ serverPosts = <<>>
    /\ finalF = [p \in PostIds |-> NoFile]
    /\ partF = [p \in PostIds |-> NoFile]

SanNext == Sanitize

SanSpec == SanInit /\ [][SanNext]_vars

----------------------------------------------------------------------------
(* Properties *)

Outcomes == downloaded_files + failed_downloads

\* the download loop was left by the `break` of its self.running test, with
\* tasks still to do, and the worker went on to the code after the loop
Interrupted ==
    /\ pc \in {"complete", "finally", "done"}
    /\ addCalls = 1
    /\ errors = 0
    /\ cur <= Len(download_files)

\* C1, as claimed: once self.running is False, no download_file call begins.
C1_NoCallAfterStop ==
    [][~running => dlCalls' = dlCalls]_vars

\* C1, amended: once self.running is False the test that opens the loop body
\* never passes again, so the only download_file call that can still begin is
\* the one of the task whose test had passed before stop() ran; stop() leaves
\* the tracker as it is, and no recorded outcome is ever taken back.
C1_Cancellation ==
    [][/\ (~running /\ pc # "call") => (pc' # "call" /\ dlCalls' = dlCalls)
       /\ (running /\ ~running') => UNCHANGED trackerVars
       /\ downloaded_files' >= downloaded_files
       /\ failed_downloads' >= failed_downloads]_vars

\* a run stopped while its first task was downloading: the outcome of that
\* task is recorded and the second task is never started
C1_Witness ==
    /\ pc = "done"
    /\ ~running
    /\ Len(download_files) = 2
    /\ dlCalls = 1
    /\ Outcomes = 1

\* C2: a download_file call that finds a .part file holding the first P
\* chunks of the remote resource (0 < P < M), talks to a server that honours
\* Range, and returns success, leaves the remote content at the final path.
C2_ResumeCorrect ==
    (/\ pc = "record"
     /\ success
     /\ dlCalls = 1
     /\ dlResume
     /\ 0 < dlOffset
     /\ dlOffset < remoteSize
     /\ rangeOK) => finalF[Task] = File(Remote)

\* C3: a download_file call that finds the final path returns success at
\* once, issues no request and leaves the final file and the .part file as
\* they are.
C3_IdempotentSkip ==
    [][(pc = "call" /\ pc' # "call" /\ finalF[Task].ex) =>
            /\ pc' = "record"
            /\ success'
            /\ fileReqs' = fileReqs
            /\ finalF' = finalF
            /\ partF' = partF]_vars

\* a call that skipped with both a final file and a .part file in place
C3_Witness ==
    /\ pc = "record"
    /\ dlCalls = 1
    /\ success
    /\ fileReqs = 0
    /\ finalF[1].ex
    /\ partF[1].ex

\* C4: when the login check is answered 401 the run is aborted: the error
\* signal is emitted (and no completion), the tracker's total stays 0, and
\* neither a search request nor a file request is issued.
C4_LoginFailureAborts ==
    loginLast = "unauth" =>
        /\ pc \in {"finally", "done"}
        /\ loginResult = "false"
        /\ errors = 1
        /\ completes = 0
        /\ total_files = 0
        /\ addCalls = 0
        /\ searchReqs = 0
        /\ fileReqs = 0
        /\ dlCalls = 0

\* a finished run whose login check was answered 401
C4_Witness ==
    /\ loginLast = "unauth"
    /\ pc = "done"
    /\ errors = 1

\* C5, as claimed: verify_login returns true only after a 200, and a call
\* answered 401 returns false having issued exactly one request, with no
\* retry delay.
C5_OneRequestOn401 ==
    /\ loginResult = "true" => loginLast = "ok"
    /\ loginLast = "unauth" => (loginResult = "false" /\ loginReqs = 1)

\* C5, amended: verify_login returns true only when its last request was
\* answered 200; a 401 makes it return false at once, with no retry delay
\* and no request after the 401; the call has then issued as many requests
\* as iterations of the retry loop were begun (one when the 401 answers the
\* first request, up to three when it follows other failures).
C5_NoRetryAfter401 ==
    [][/\ loginResult' = "true" => loginLast' = "ok"
       /\ loginLast' = "unauth" =>
              /\ loginResult' = "false"
              /\ pc' # "login_sleep"
              /\ loginReqs' = apiAttempt + 1 \/ loginReqs' = loginReqs
       /\ loginLast = "unauth" => loginReqs' = loginReqs]_vars

\* verify_login has returned false on a 401 that answered its first request
C5_Witness ==
    /\ loginLast = "unauth"
    /\ loginReqs = 1
    /\ loginResult = "false"

\* C6: in every state of a run, downloaded_files + failed_downloads <=
\* total_files.
C6_OutcomesWithinTotal ==
    downloaded_files + failed_downloads <= total_files

\* a run that recorded a success and a failure, all of its two tasks
C6_Witness ==
    /\ downloaded_files = 1
    /\ failed_downloads = 1
    /\ total_files = 2

\* C7, as claimed: a tracker on its own keeps completed + failed <= total
\* under any sequence of add_files and register_download.
C7_TrackerAlwaysWithinTotal ==
    total_files >= downloaded_files + failed_downloads

\* C7, amended: the tracker does not enforce the bound, it preserves it: a
\* step from a state with completed + failed <= total leads to one, provided
\* an outcome is registered only while completed + failed < total (add_files
\* takes a count >= 0).
C7_TrackerPreservesBound ==
    [][(/\ Outcomes <= total_files
        /\ (downloaded_files' + failed_downloads' # Outcomes
                => Outcomes < total_files))
            => downloaded_files' + failed_downloads' <= total_files']_vars

\* a tracker that was given two files and has registered both outcomes
C7_Witness ==
    /\ pc = "tracker"
    /\ total_files = 2
    /\ downloaded_files = 1
    /\ failed_downloads = 1

\* C8: the percentage reported is 0 when total_files is 0 and
\* floor((downloaded_files + failed_downloads) * 100 / total_files) otherwise.
C8_PercentageIsFloor ==
    pc = "pctdone" =>
        progress[3] = IF total_files = 0 THEN 0
                      ELSE (Outcomes * 100) \div total_files

\* C9: add_files is called at most once in a run, when the task list has been
\* built, and after that call total_files never changes.
C9_TotalFixed ==
    [][/\ addCalls' <= 1
       /\ addCalls' # addCalls => (pc = "addfiles" /\ total_files' = Len(download_files))
       /\ addCalls' = addCalls => total_files' = total_files]_vars

\* a finished run that downloaded two tasks after its one add_files call
C9_Witness ==
    /\ pc = "done"
    /\ addCalls = 1
    /\ total_files = 2
    /\ Outcomes = 2

\* C10: when the run has terminated, the session of the API client and the
\* session of the file downloader are both None.
C10_SessionsClosed ==
    pc = "done" => (apiSession = "none" /\ dlSession = "none")

\* a run that ended on an exception raised while a file was transferred
C10_Witness ==
    /\ pc = "done"
    /\ errors = 1
    /\ fileReqs > 0
    /\ apiSession = "none"
    /\ dlSession = "none"

\* C11: a started run reaches its end, and at its end it has emitted exactly
\* one terminal event, download_complete or error_signal.
C11_TerminalEvent ==
    /\ <>(pc = "done")
    /\ [](pc = "done" => completes + errors = 1)

C11_Witness ==
    /\ pc = "done"
    /\ errors = 1
    /\ exc = "timeout"
    /\ dlCalls = 1

\* C12: a run whose download loop was left because the cancellation flag was
\* observed set ends with an outcome other than completion: it does not emit
\* download_complete.
C12_CancelledIsNotCompleted ==
    (pc = "done" /\ Interrupted) => completes = 0

\* C13: registering a failed download_file call adds one to failed_downloads
\* and nothing to downloaded_files or total_files, emits no error_signal and
\* moves the loop to the next position; from there, while self.running
\* holds, the worker sleeps at most once and calls download_file on the next
\* task of the list.
C13_FailureDoesNotStopBatch ==
    [][/\ (pc = "record" /\ pc' # pc /\ ~success) =>
            /\ failed_downloads' = failed_downloads + 1
            /\ downloaded_files' = downloaded_files
            /\ total_files' = total_files
            /\ errors' = errors
            /\ cur' = cur + 1
            /\ download_files' = download_files
            /\ pc' = IF cur < Len(download_files) /\ running THEN "sleep"
                     ELSE "loopcheck"
       /\ (pc = "sleep" /\ pc' # pc) => (pc' = "loopcheck" /\ cur' = cur)
       /\ (pc = "loopcheck" /\ pc' # pc /\ running
              /\ cur <= Len(download_files)) => (pc' = "call" /\ cur' = cur)
      ]_vars

C13_Witness ==
    /\ pc = "call"
    /\ cur = 2
    /\ failed_downloads = 1
    /\ running

\* C14: a run whose login check ended on a connection error, its retries
\* exhausted, emits no error_signal.
C14_TransientNeverAborts ==
    loginLast = "cerr" => errors = 0

\* C15: download_file never lets a timeout out to its caller.
C15_NeverRaises ==
    ~(pc = "except" /\ exc = "timeout")

\* C16: with limit = 0, a search that succeeds returns every post the server
\* holds for the tags, all pages of them in order.
C16_AllPages ==
    (pc \in {"build", "addfiles", "loopcheck"} /\ limit = 0)
        => posts = serverPosts

\* C17: with limit > 0, a search returns at most `limit` posts, whatever the
\* server sends.
C17_CapEnforced ==
    (pc \in {"build", "addfiles", "loopcheck"} /\ limit > 0)
        => Len(posts) <= limit

\* C18: what _sanitize_filename returns holds none of the reserved
\* characters < > : " / \ | ? *.
C18_NoReservedCharacter ==
    pc = "sandone" =>
        \A i \in 1..Len(sanitized) :
            sanitized[i] \notin {"<", ">", ":", "\"", "/", "\\", "|", "?", "*"}

C18_Witness ==
    /\ pc = "sandone"
    /\ Len(filename) > 1
    /\ filename[1] = ":"
    /\ sanitized = Tail(filename)

\* C19: what _sanitize_filename returns is at most 100 characters long.
C19_LengthCeiling ==
    pc = "sandone" => Len(sanitized) <= 100

\* C20: when the filename is longer than 100 characters and its sanitized
\* text has a ".", the result is a prefix of the sanitized base name, then
\* ".", then the whole of the sanitized text after its last "." (d is the
\* position of that ".", n the position of the "." of the result).
C20_ExtensionKept ==
    LET c == Cleaned(filename)
        dots == {i \in 1..Len(c) : c[i] = "."}
        d == IF dots = {} THEN 0
             ELSE CHOOSE i \in dots : \A j \in dots : j <= i
        n == Len(sanitized) - (Len(c) - d)
    IN  (pc = "sandone" /\ Len(filename) > 100 /\ d > 0) =>
            /\ n >= 1
            /\ n <= d
            /\ Suffix(sanitized, n) = Suffix(c, d)
            /\ sanitized[n] = "."
            /\ Prefix(sanitized, n - 1) = Prefix(c, n - 1)

C20_Witness ==
    /\ pc = "sandone"
    /\ Len(filename) > 100
    /\ \E i \in 1..Len(Cleaned(filename)) : Cleaned(filename)[i] = "."
    /\ Len(sanitized) < Len(Cleaned(filename))
    /\ sanitized[Len(sanitized)] = "b"

\* C21: a run whose configuration lacks a required field issues no HTTP
\* request.
C21_RejectedBeforeNetwork ==
    missingField # "none" => loginReqs + searchReqs + fileReqs = 0

\* C22: an exception other than a timeout that leaves download_file leaves
\* the tracker as it is, so that the outcomes recorded stay one short of the
\* calls begun; from then on no download_file call begins, no outcome is
\* recorded and download_complete is not emitted; `except Exception` emits
\* error_signal, and the run ends with that one error event.
C22_UnrecoverableAborts ==
    [][/\ (pc = "attempt" /\ pc' = "except") =>
            /\ UNCHANGED trackerVars
            /\ cur' = cur
       /\ (exc = "other" /\ dlCalls >= 1) =>
            /\ dlCalls' = dlCalls
            /\ UNCHANGED <<downloaded_files, failed_downloads, completes>>
            /\ (pc = "except" /\ pc' # pc) =>
                    (errors' = errors + 1 /\ pc' = "finally")
       /\ (exc' = "other" /\ dlCalls' >= 1) =>
            /\ Outcomes' = dlCalls' - 1
            /\ pc' \in {"except", "finally", "done"}
            /\ pc' = "done" => (errors' = 1 /\ completes' = 0)
      ]_vars

C22_Witness ==
    /\ pc = "done"
    /\ exc = "other"
    /\ dlCalls = 1
    /\ Len(download_files) = 2
    /\ errors = 1
    /\ Outcomes = 0

\* C23, as claimed: once the task list is built, it holds the posts that
\* have a file url, all of them and in their order, also when stop() ran
\* during the build.
C23_OneTaskPerItem ==
    (pc = "addfiles" \/ addCalls >= 1) =>
        download_files =
            SelectSeq([i \in 1..Len(posts) |-> i], LAMBDA i : posts[i])

\* C23, amended: the task list always holds, in their order, the posts with
\* a file url among the posts the build loop has gone through, and no other;
\* the loop has gone through all the posts when the list is handed to the
\* tracker with self.running still set, and through the posts before its
\* `break` when stop() ran during the build.
C23_TasksOfPostsSeen ==
    /\ bi <= Len(posts) + 1
    /\ download_files =
            SelectSeq([i \in 1..(bi - 1) |-> i], LAMBDA i : posts[i])
    /\ ((pc = "addfiles" \/ addCalls >= 1) /\ running) => bi = Len(posts) + 1

C23_Witness ==
    /\ addCalls = 1
    /\ ~running
    /\ bi = 2
    /\ posts = <<TRUE, TRUE>>
    /\ download_files = <<1>>

\* C24: the count of the latest progress_update is the number of outcomes
\* recorded, downloaded and failed together, and its total is total_files.
C24_ProgressCountsOutcomes ==
    addCalls >= 1 => (progress[1] = Outcomes /\ progress[2] = total_files)

\* C25: while the file server answers no request with 200 or 206,
\* download_file changes neither the .part file nor the final path, and when
\* it returns from its retry loop it returns False, on its third attempt at
\* the latest.
C25_OnlyAcceptedStatusWrites ==
    [][~available =>
          /\ partF' = partF
          /\ finalF' = finalF
          /\ fileReqs' # fileReqs => dlAttempt < 3
          /\ (pc = "attempt" /\ pc' = "record") => ~success'
      ]_vars

C25_Witness ==
    /\ ~available
    /\ pc = "record"
    /\ ~success
    /\ dlCalls = 1
    /\ fileReqs = 3
    /\ partF[1] = File(<<1>>)
    /\ ~finalF[1].ex

\* C26: a run that logged in and whose get_posts returned an empty list, the
\* server holding no post or _make_request returning None, ends having
\* emitted download_complete and no error_signal, with total_files = 0, no
\* download_file call and no file request.
C26_EmptySearchCompletes ==
    (pc \in {"finally", "done"} /\ loginResult = "true" /\ exc = "none"
        /\ posts = <<>>) =>
            /\ completes = 1
            /\ errors = 0
            /\ total_files = 0
            /\ addCalls = 0
            /\ dlCalls = 0
            /\ fileReqs = 0

C26_Witness ==
    /\ pc = "done"
    /\ posts = <<>>
    /\ serverPosts # <<>>
    /\ searchReqs = 3
    /\ completes = 1

\* C27: every request of download_file carries a Range header exactly when
\* the .part file of the task exists and is not empty, and the offset of the
\* header is the size of that file.
C27_RangeIffPartial ==
    [][fileReqs' # fileReqs =>
          /\ RangeHeader <=> (partF[Task].ex /\ Len(partF[Task].data) > 0)
          /\ RangeHeader => dlOffset = Len(partF[Task].data)
      ]_vars

\* C28: a retry whose .part file holds bytes asks for the bytes after them:
\* from the second attempt on, the request carries a Range header whose
\* offset is the size the .part file has then.
C28_RetryRereadsOffset ==
    [][(fileReqs' # fileReqs /\ dlAttempt >= 1
            /\ partF[Task].ex /\ Len(partF[Task].data) > 0) =>
          (dlResume /\ dlOffset = Len(partF[Task].data))
      ]_vars

\* C29: when download_file resumes and the server answers 200, which it does
\* to a request without Range and to any request when it ignores Range, a
\* transfer read to its end leaves at the final path the bytes of the .part
\* file as it was, followed by the whole resource.
C29_FullBodyAppended ==
    [][(pc = "attempt" /\ pc' = "record" /\ success' /\ dlResume
            /\ (~rangeOK \/ dlOffset = 0)) =>
          finalF'[Task] = File(partF[Task].data \o Remote)
      ]_vars

C29_Witness ==
    /\ pc = "record"
    /\ success
    /\ dlResume
    /\ ~rangeOK
    /\ fileReqs = 1
    /\ finalF[1] = File(<<1, 1, 2>>)

\* C30: a step changes what the final paths hold only when download_file
\* has read an accepted body to its end: that step returns success, leaves
\* no .part file, and puts at the final path of the task the bytes the .part
\* file held followed by the whole body; and when download_file returns
\* failure, nothing exists at the final path of the task.
C30_FinalOnlyByRename ==
    [][/\ finalF' # finalF =>
            /\ pc = "attempt" /\ pc' = "record" /\ success'
            /\ partF' = [partF EXCEPT ![Task] = NoFile]
            /\ \E st \in {200, 206} :
                  finalF' = [finalF EXCEPT ![Task] =
                      File((IF dlResume THEN partF[Task].data ELSE <<>>)
                           \o Body(st))]
       /\ (pc = "attempt" /\ pc' = "record" /\ ~success') =>
            (~finalF[Task].ex /\ finalF' = finalF)
      ]_vars

C30_Witness ==
    /\ pc = "record"
    /\ ~success
    /\ fileReqs = dl_retry_count
    /\ partF[1] = File(<<1>>)
    /\ ~finalF[1].ex

\* C31: once the outcome of a task is recorded and its progress emitted, the
\* worker sleeps exactly when the task is not the last one and self.running
\* holds; when it goes on without sleeping, no task is left or the flag is
\* cleared, and from there the loop starts no transfer: a transfer after the
\* first starts only from the loop head reached with the flag still set.
C31_DelayBetweenTasks ==
    [][/\ (pc = "record" /\ pc' # "record") =>
            /\ pc' \in {"sleep", "loopcheck"}
            /\ pc' = "sleep" <=> (cur < Len(download_files) /\ running)
            /\ pc' = "loopcheck" =>
                   (cur' > Len(download_files) \/ ~running')
       /\ (pc = "sleep" /\ pc' # "sleep") => pc' = "loopcheck"
       /\ (pc = "loopcheck" /\ pc' = "call") =>
            (running /\ cur <= Len(download_files))
       /\ (~running => ~running')
      ]_vars

C31_Witness ==
    /\ pc = "call"
    /\ cur = 2
    /\ dlCalls = 1
    /\ fileReqs >= 1
    /\ running

\* C32: a run issues at most 3 login requests and at most 3 search
\* requests, and a download_file call at most 3 file requests: each request
\* of a call is issued at a loop index below 3, the index then moves on
\* before the next request of the call, and one call is made per task.
C32_RequestsBounded ==
    [][/\ loginReqs' <= 3
       /\ searchReqs' <= 3
       /\ dlCalls' <= Len(download_files')
       /\ fileReqs' <= 3 * dlCalls'
       /\ fileReqs' # fileReqs =>
            /\ fileReqs' = fileReqs + 1
            /\ pc = "attempt"
            /\ dlAttempt \in 0..2
            /\ pc' = "attempt" => dlAttempt' = dlAttempt + 1
            /\ pc' = "attempt_sleep" => dlAttempt' = dlAttempt
       /\ (pc = "attempt_sleep" /\ pc' # pc) =>
            (pc' = "attempt" /\ dlAttempt' = dlAttempt + 1)
       /\ dlCalls' # dlCalls =>
            /\ dlCalls' = dlCalls + 1
            /\ pc' = "attempt" => dlAttempt' = 0
      ]_vars

C32_Witness ==
    /\ pc = "done"
    /\ loginReqs = 3
    /\ searchReqs = 3
    /\ dlCalls = 2
    /\ fileReqs = 6

\* C33: at most one worker thread is alive: the thread in
\* self.download_thread when it is running, together with the threads that
\* were replaced there and have not returned from run().
C33_OneWorkerAlive ==
    replaced + (IF isRunning THEN 1 ELSE 0) <= 1

\* C34: a run emits download_complete or error_signal at most once in all,
\* never both, and nothing after it: once the terminal signal is out the
\* worker is in its finally block or past it, where no signal is emitted,
\* and neither the signal counts nor the last progress event change.
C34_OneTerminalSignalLast ==
    [][/\ completes' + errors' <= 1
       /\ completes + errors = 1 =>
            /\ pc \in {"finally", "done"}
            /\ pc' \in {"finally", "done"}
            /\ completes' = completes
            /\ errors' = errors
            /\ progress' = progress
      ]_vars

C34_Witness ==
    /\ pc = "done"
    /\ completes = 1
    /\ errors = 0
    /\ progress = <<1, 2, 100>>

\* C35: once self.running is cleared while the worker has not yet passed
\* the first test of the download loop, no file request has been issued and
\* the worker stays before the loop or goes to the end of the run, where
\* none is issued either; the flag skips neither the login nor the search:
\* a run that completes has issued both requests.
C35_StoppedEarlyNoFileRequest ==
    [][/\ (~running /\ (pc \in {"start", "login", "login_sleep", "search",
                                 "search_sleep", "build", "addfiles"}
                         \/ (pc = "loopcheck" /\ dlCalls = 0))) =>
            /\ fileReqs = 0
            /\ fileReqs' = 0
            /\ dlCalls' = 0
            /\ pc' \in {"start", "login", "login_sleep", "search",
                        "search_sleep", "build", "addfiles", "loopcheck",
                        "complete", "except", "finally"}
       /\ pc \in {"complete", "except", "finally", "done"} =>
            /\ pc' \in {"complete", "except", "finally", "done"}
            /\ fileReqs' = fileReqs
       /\ completes' = 1 => (loginReqs' >= 1 /\ searchReqs' >= 1)
      ]_vars

C35_Witness ==
    /\ pc = "done"
    /\ ~running
    /\ completes = 1
    /\ posts = <<TRUE, TRUE>>
    /\ Len(download_files) = 2
    /\ loginReqs >= 1
    /\ searchReqs >= 1
    /\ dlCalls = 0
    /\ fileReqs = 0

\* C36: _sanitize_filename is idempotent: applied to a name it returned, it
\* returns that name.
C36_Idempotent ==
    pc = "sandone" => sanitize_filename(sanitized) = sanitized

\* C37: a run of the legacy worker that has ended has emitted
\* download_complete or error_signal.
C37_LegacyRunEndsWithSignal ==
    pc = "done" => completes + errors >= 1

\* C38: in a directory the legacy worker works in, a file at the final path
\* of a post holds the whole resource.
C38_LegacyFinalFileComplete ==
    \A p \in PostIds : finalF[p].ex => finalF[p].data = Remote

====
